---------------------------- MODULE Spec2Model ----------------------------
(***************************************************************************)
(* Model of scr/pbf2html_station_users.py: vector tiles are decoded, the   *)
(* station features are reprojected to longitude/latitude, the records of  *)
(* a directory are aggregated and drawn as circle markers.                 *)
(*                                                                         *)
(* Text is a sequence of one-character strings.  A Python dict is a        *)
(* function whose DOMAIN is its key set.  A Python list is a sequence, so  *)
(* Python's l[0] is l[1] here.  Longitudes and radii are exact rationals   *)
(* [num, den]; latitudes are fixed-point numbers with FixOne units per 1.  *)
(***************************************************************************)
EXTENDS Integers, Sequences, FiniteSets, TLC

VARIABLES pc, dir, idx, all_data, file_count, gdf, m, saved, log, inp, out

vars == <<pc, dir, idx, all_data, file_count, gdf, m, saved, log, inp, out>>

-----------------------------------------------------------------------------
(* Bounds of the model. *)

MaxFiles == 2

MaxFeatures == 2

MaxZoom == 2

MaxRows == 3

-----------------------------------------------------------------------------
(* Numbers. *)

Abs(a) == IF a < 0 THEN -a ELSE a

Sign(a) == IF a < 0 THEN -1 ELSE 1

RECURSIVE Gcd(_, _)
Gcd(a, b) == IF b = 0 THEN a ELSE Gcd(b, a % b)

RECURSIVE Pow2(_)
Pow2(z) == IF z = 0 THEN 1 ELSE 2 * Pow2(z - 1)

(* A float holding the exact quotient n/d, in lowest terms, d > 0. *)
Reduced(n, d, g) == [num |-> Sign(d) * (n \div g), den |-> Abs(d) \div g]

Rat(n, d) == Reduced(n, d, Gcd(Abs(n), Abs(d)))

RatInt(n) == [num |-> n, den |-> 1]

RatAdd(p, q) == Rat(p.num * q.den + q.num * p.den, p.den * q.den)

RatSub(p, q) == Rat(p.num * q.den - q.num * p.den, p.den * q.den)

RatMul(p, q) == Rat(p.num * q.num, p.den * q.den)

RatDiv(p, q) == Rat(p.num * q.den, p.den * q.num)

RatLeq(p, q) == p.num * q.den <= q.num * p.den

(* Fixed point: the integer a stands for a / FixOne. *)
FixOne == 1000 * 1000

FixBase == 1000

FixMulAbs(a, b) ==
    LET ah == a \div FixBase
        al == a % FixBase
        bh == b \div FixBase
        bl == b % FixBase
    IN  ah * bh + ((ah * bl + al * bh + ((al * bl) \div FixBase)) \div FixBase)

FixMul(a, b) == Sign(a) * Sign(b) * FixMulAbs(Abs(a), Abs(b))

(* n/d for n >= 0, d > 0, by long division, two decimal digits at a time. *)
FixDivAbs(n, d) ==
    LET q0 == n \div d
        r0 == n % d
        q1 == (r0 * 100) \div d
        r1 == (r0 * 100) % d
        q2 == (r1 * 100) \div d
        r2 == (r1 * 100) % d
        q3 == (r2 * 100) \div d
    IN  q0 * FixOne + q1 * 10000 + q2 * 100 + q3

FixDiv(n, d) == Sign(n) * Sign(d) * FixDivAbs(Abs(n), Abs(d))

FixOfRat(r) == FixDiv(r.num, r.den)

(* math.pi and 180/math.pi *)
FixPi == 3141593

FixDegPerRad == 57295780

(* math.sinh(x) = x + x^3/3! + x^5/5! + ... ; term is the k-th summand. *)
RECURSIVE SinhSum(_, _, _)
SinhSum(x, term, k) ==
    IF term = 0 \/ k > 40 THEN 0
    ELSE term + SinhSum(x, FixMul(FixMul(term, x), x) \div ((k + 1) * (k + 2)), k + 2)

sinh(x) == Sign(x) * SinhSum(Abs(x), Abs(x), 1)

(* atan on [0, 1/2]: s - s^3/3 + s^5/5 - ... ; pw = s^k. *)
RECURSIVE AtanSum(_, _, _)
AtanSum(s, pw, k) ==
    IF pw = 0 \/ k > 60 THEN 0
    ELSE (pw \div k) - AtanSum(s, FixMul(FixMul(pw, s), s), k + 2)

AtanSmall(t) == AtanSum(t, t, 1)

(* atan(s) = pi/4 + atan((s-1)/(s+1)) near 1, pi/2 - atan(1/s) above 2. *)
AtanAbs(s) ==
    IF 2 * s <= FixOne THEN AtanSmall(s)
    ELSE IF s <= 2 * FixOne
         THEN (FixPi \div 4) + Sign(s - FixOne)
                  * AtanSmall(FixDiv(Abs(s - FixOne), s + FixOne))
    ELSE (FixPi \div 2) - AtanSmall(FixDiv(FixOne, s))

atan(s) == Sign(s) * AtanAbs(Abs(s))

degrees(r) == FixMul(r, FixDegPerRad)


-----------------------------------------------------------------------------
(* Text: str.endswith, str.split, int(), os.path.join, os.path.basename. *)

None == [kind |-> "None"]

Raise(e) == [kind |-> "raise", exc |-> e]

Return(v) == [kind |-> "return", value |-> v]

Digits == <<"0", "1", "2", "3", "4", "5", "6", "7", "8", "9">>

IsDigit(c) == \E d \in 1..10 : Digits[d] = c

DigitValue(c) == (CHOOSE d \in 1..10 : Digits[d] = c) - 1

endswith(s, suffix) ==
    /\ Len(s) >= Len(suffix)
    /\ SubSeq(s, Len(s) - Len(suffix) + 1, Len(s)) = suffix

(* The position of the first sep at or after position i, 0 when there is none. *)
RECURSIVE Find(_, _, _)
Find(s, sep, i) ==
    IF i > Len(s) THEN 0
    ELSE IF s[i] = sep THEN i
    ELSE Find(s, sep, i + 1)

(* s.split(sep) for a one-character sep: always at least one part. *)
RECURSIVE split(_, _)
split(s, sep) ==
    LET p == Find(s, sep, 1)
    IN  IF p = 0 THEN <<s>>
        ELSE <<SubSeq(s, 1, p - 1)>> \o split(SubSeq(s, p + 1, Len(s)), sep)

RECURSIVE DigitsValue(_)
DigitsValue(s) ==
    IF s = <<>> THEN 0
    ELSE 10 * DigitsValue(SubSeq(s, 1, Len(s) - 1)) + DigitValue(s[Len(s)])

(* int(s): an optional sign and at least one digit, ValueError otherwise. *)
int(s) ==
    LET signed == s # <<>> /\ s[1] \in {"+", "-"}
        body   == IF signed THEN Tail(s) ELSE s
    IN  IF body # <<>> /\ \A i \in 1..Len(body) : IsDigit(body[i])
        THEN Return(IF signed /\ s[1] = "-" THEN -DigitsValue(body) ELSE DigitsValue(body))
        ELSE Raise("ValueError")

join(directory, file) == directory \o <<"/">> \o file

RECURSIVE basename(_)
basename(path) ==
    LET p == Find(path, "/", 1)
    IN  IF p = 0 THEN path ELSE basename(SubSeq(path, p + 1, Len(path)))

Zoom == 15

(* parts[-2], parts[-1].split('.')[0] and the map(int, ...) of line 33. *)
TileOfInts(px, py) ==
    IF px.kind = "raise" THEN px
    ELSE IF py.kind = "raise" THEN py
    ELSE Return([z |-> Zoom, x |-> px.value, y |-> py.value])

TileOfParts(parts) ==
    IF Len(parts) < 2 THEN Raise("IndexError")
    ELSE TileOfInts(int(parts[Len(parts) - 1]),
                    int(split(parts[Len(parts)], ".")[1]))

TileOfName(file_name) == TileOfParts(split(file_name, "_"))

-----------------------------------------------------------------------------
(* tile_to_latlon: x and y are rationals, z an integer; lon_deg is exact,  *)
(* lat_deg is fixed point.                                                 *)

(* The shift to [-180, 180) left out. *)
LonOfTileUnshifted(x, n) == RatMul(RatDiv(x, n), RatInt(360))

LonOfTile(x, n) == RatSub(RatMul(RatDiv(x, n), RatInt(360)), RatInt(180))

LatOfTile(y, n) ==
    LET t       == RatSub(RatInt(1), RatDiv(RatMul(RatInt(2), y), n))
        lat_rad == atan(sinh(FixMul(FixPi, FixOfRat(t))))
    IN  degrees(lat_rad)

tile_to_latlon(x, y, z) ==
    [lon |-> LonOfTile(x, RatInt(Pow2(z))), lat |-> LatOfTile(y, RatInt(Pow2(z)))]

-----------------------------------------------------------------------------
(* read_pbf *)

EmptyDict == [k \in {} |-> 0]

(* dict.get(key, default) *)
Get(d, key, default) == IF key \in DOMAIN d THEN d[key] ELSE default

(* A LineString reduced to its last pair instead of its first. *)
CoordsOfGeometryLast(geom) ==
    IF geom.type = "LineString"
    THEN IF Len(geom.coordinates) < 1 THEN Raise("IndexError")
         ELSE Return(geom.coordinates[Len(geom.coordinates)])
    ELSE IF geom.type = "Polygon"
    THEN IF Len(geom.coordinates) < 1 THEN Raise("IndexError")
         ELSE IF Len(geom.coordinates[1]) < 1 THEN Raise("IndexError")
         ELSE Return(geom.coordinates[1][1])
    ELSE IF geom.type = "Point"
    THEN Return(geom.coordinates)
    ELSE [kind |-> "skip"]

(* Lines 43-52: the coordinate pair picked by geometry type; "skip" is the *)
(* warning and continue of the else branch.                                *)
CoordsOfGeometry(geom) ==
    IF geom.type = "LineString"
    THEN IF Len(geom.coordinates) < 1 THEN Raise("IndexError")
         ELSE Return(geom.coordinates[1])
    ELSE IF geom.type = "Polygon"
    THEN IF Len(geom.coordinates) < 1 THEN Raise("IndexError")
         ELSE IF Len(geom.coordinates[1]) < 1 THEN Raise("IndexError")
         ELSE Return(geom.coordinates[1][1])
    ELSE IF geom.type = "Point"
    THEN Return(geom.coordinates)
    ELSE [kind |-> "skip"]

(* Lines 54-61: the record appended for a kept feature. *)
Station(ll, name, passengers) ==
    [geometry   |-> [x |-> ll.lon, y |-> ll.lat],
     properties |-> [name |-> name, passengers |-> passengers]]

StationOf(properties, passengers, coords, layer, tile) ==
    IF Len(coords) < 1 THEN Raise("IndexError")
    ELSE IF layer.extent = 0 THEN Raise("ZeroDivisionError")
    ELSE IF Len(coords) < 2 THEN Raise("IndexError")
    ELSE Return(<<Station(tile_to_latlon(
                              RatAdd(RatInt(tile.x), Rat(coords[1], layer.extent)),
                              RatAdd(RatInt(tile.y), Rat(coords[2], layer.extent)),
                              tile.z),
                          properties.S12_001_ja, passengers)>>)

(* One iteration of the loop of lines 36-61: the records to append (none   *)
(* or one), or the exception raised.                                       *)
Located(c, properties, layer, tile) ==
    IF c.kind = "skip" THEN Return(<<>>)
    ELSE IF c.kind = "raise" THEN c
    ELSE StationOf(properties, Get(properties, "S12_009", 0), c.value, layer, tile)

(* The name read with a default instead of the membership test. *)
NamedUnfiltered(feature, properties, layer, tile) ==
    IF "geometry" \notin DOMAIN feature THEN Raise("KeyError")
    ELSE Located(CoordsOfGeometry(feature.geometry),
                 properties @@ [S12_001_ja |-> "", S12_009 |-> 0], layer, tile)

Named(feature, properties, layer, tile) ==
    IF "S12_001_ja" \notin DOMAIN properties THEN Return(<<>>)
    ELSE IF "geometry" \notin DOMAIN feature THEN Raise("KeyError")
    ELSE Located(CoordsOfGeometry(feature.geometry), properties, layer, tile)

FeatureStep(feature, layer, tile) ==
    Named(feature, Get(feature, "properties", EmptyDict), layer, tile)

RECURSIVE FeatureLoop(_, _, _, _)
RECURSIVE Appended(_, _, _, _, _)
Appended(step, layer, tile, k, features) ==
    IF step.kind = "raise" THEN step
    ELSE FeatureLoop(layer, tile, k + 1, features \o step.value)

(* The loop of lines 36-61 from feature k on, features being the list so far. *)
FeatureLoop(layer, tile, k, features) ==
    IF k > Len(layer.features) THEN Return(features)
    ELSE Appended(FeatureStep(layer.features[k], layer, tile), layer, tile, k, features)

(* mapbox_vector_tile.decode on the bytes read: the layers of the tile, in *)
(* order, or an error when the bytes are no tile.  open() fails on an      *)
(* entry that cannot be read.                                              *)
decode(data) ==
    IF data.kind = "unreadable" THEN Raise("OSError")
    ELSE IF data.kind = "malformed" THEN Raise("DecodeError")
    ELSE Return(data.layers)

(* The try block, lines 20-64: a return value or an exception. *)
List(items) == [kind |-> "list", items |-> items]

Extracted(r) == IF r.kind = "raise" THEN r ELSE Return(List(r.value))

Extract(layer, t) ==
    IF t.kind = "raise" THEN t
    ELSE Extracted(FeatureLoop(layer, t.value, 1, <<>>))

Decoded(tile, file_path) ==
    IF tile.kind = "raise" THEN tile
    ELSE IF tile.value = <<>> THEN Return(None)
    ELSE Extract(tile.value[1], TileOfName(basename(file_path)))

(* The try block, lines 20-64: a return value or an exception. *)
ReadPbfBody(file_path, data) == Decoded(decode(data), file_path)

(* except Exception: print and return None. *)
Caught(r) == IF r.kind = "raise" THEN None ELSE r.value

read_pbf(file_path, data) == Caught(ReadPbfBody(file_path, data))

(* Python truth of read_pbf's result: None and [] are false. *)
Truthy(features) == features.kind = "list" /\ features.items # <<>>

-----------------------------------------------------------------------------
(* create_map *)

NaN == [nan |-> TRUE]

RECURSIVE SeqMin(_)
SeqMin(s) ==
    IF Len(s) = 1 THEN s[1]
    ELSE LET r == SeqMin(Tail(s)) IN IF s[1] < r THEN s[1] ELSE r

RECURSIVE SeqMax(_)
SeqMax(s) ==
    IF Len(s) = 1 THEN s[1]
    ELSE LET r == SeqMax(Tail(s)) IN IF s[1] > r THEN s[1] ELSE r

(* The span taken as the largest radius. *)
MarkerSizeWide(passengers, min_passengers, max_passengers) ==
    IF max_passengers - min_passengers = 0 THEN NaN
    ELSE RatAdd(RatInt(5),
                RatMul(RatDiv(RatInt(passengers - min_passengers),
                              RatInt(max_passengers - min_passengers)),
                       RatInt(20)))

(* Line 101; the operands are numpy scalars, so 0/0 is nan, not an error. *)
MarkerSize(passengers, min_passengers, max_passengers) ==
    IF max_passengers - min_passengers = 0 THEN NaN
    ELSE RatAdd(RatInt(5),
                RatMul(RatDiv(RatInt(passengers - min_passengers),
                              RatInt(max_passengers - min_passengers)),
                       RatInt(15)))

Passengers(data) == [r \in 1..Len(data) |-> data[r].properties.passengers]

CircleMarker(row, min_passengers, max_passengers) ==
    [location |-> <<row.geometry.y, row.geometry.x>>,
     radius   |-> MarkerSize(row.properties.passengers, min_passengers, max_passengers),
     popup    |-> <<row.properties.name, row.properties.passengers>>]

Markers(data, min_passengers, max_passengers) ==
    [r \in 1..Len(data) |-> CircleMarker(data[r], min_passengers, max_passengers)]

create_map(data) == Markers(data, SeqMin(Passengers(data)), SeqMax(Passengers(data)))

-----------------------------------------------------------------------------
(* Inputs.  Pools are tuples, drawn from by index. *)

PbfDir == <<"5", "0", "0", "m", "_", "m", "e", "s", "h", "/", "s", "t", "a", "t", "i", "o", "n", "_", "u", "s", "e", "r", "s", "_", "5", "0", "0", "m", "_", "m", "e", "s", "h">>

FeaturePool ==
    << [properties |-> [S12_001_ja |-> "A", S12_009 |-> 50],
        geometry   |-> [type |-> "Point", coordinates |-> <<1, 1>>]],
       [properties |-> [S12_001_ja |-> "B"],
        geometry   |-> [type |-> "LineString",
                        coordinates |-> << <<2, 0>>, <<1, 1>> >>]],
       [properties |-> [S12_001_ja |-> "C", S12_009 |-> 100],
        geometry   |-> [type |-> "Polygon",
                        coordinates |-> << << <<0, 2>>, <<1, 0>>, <<2, 2>>, <<0, 2>> >>,
                                           << <<1, 1>>, <<2, 1>>, <<1, 2>>, <<1, 1>> >> >>]],
       [properties |-> [S12_001_ja |-> "D", S12_009 |-> 25],
        geometry   |-> [type |-> "MultiPolygon",
                        coordinates |-> << << << <<1, 0>>, <<2, 0>>, <<2, 1>>, <<1, 0>> >> >> >>]],
       [properties |-> [S12_009 |-> 25],
        geometry   |-> [type |-> "Point", coordinates |-> <<0, 1>>]],
       [properties |-> [S12_001_ja |-> "E", S12_009 |-> 25]],
       [properties |-> [S12_001_ja |-> "F", S12_009 |-> 0],
        geometry   |-> [type |-> "LineString", coordinates |-> <<>>]],
       [geometry   |-> [type |-> "Point", coordinates |-> <<2, 2>>]] >>

NamePool ==
    << <<"s", "_", "1", "_", "2", ".", "p", "b", "f">>,
       <<"t", "_", "m", "_", "0", "_", "3", ".", "p", "b", "f">>,
       <<"s", "_", "x", "_", "2", ".", "p", "b", "f">>,
       <<"s", "1", "2", ".", "p", "b", "f">>,
       <<"s", "_", "1", "_", ".", "p", "b", "f">> >>

ExtentPool == <<2, 0, 4>>

DataKinds == {"tile", "empty", "malformed", "unreadable"}

Layer(extent, fs) == [extent |-> extent, features |-> [k \in 1..Len(fs) |-> FeaturePool[fs[k]]]]

(* The bytes of a file, by what decode makes of them.  A tile holds the    *)
(* layer and a second, empty one after it.                                 *)
Data(kind, extent, fs) ==
    IF kind = "tile"
    THEN [kind |-> "tile", layers |-> <<Layer(extent, fs), Layer(extent, <<>>)>>]
    ELSE IF kind = "empty" THEN [kind |-> "tile", layers |-> <<>>]
    ELSE [kind |-> kind]

File(name, data) == [name |-> name, data |-> data]

FeatureChoices == UNION {[1..k -> 1..Len(FeaturePool)] : k \in 0..MaxFeatures}

(* The directory entries of the pipeline runs. *)
FilePool ==
    << File(<<"s", "_", "1", "_", "2", ".", "p", "b", "f">>, Data("tile", 2, <<1, 5, 3>>)),
       File(<<"s", "_", "0", "_", "1", ".", "p", "b", "f">>, Data("tile", 2, <<2, 1, 4, 1>>)),
       File(<<"s", "_", "1", "_", "1", ".", "p", "b", "f">>, Data("malformed", 2, <<>>)),
       File(<<"s", "_", "x", "_", "1", ".", "p", "b", "f">>, Data("tile", 2, <<1>>)),
       File(<<"s", "_", "1", "_", "2", ".", "t", "x", "t">>, Data("tile", 2, <<3>>)),
       File(<<"s", "_", "2", "_", "0", ".", "p", "b", "f">>, Data("empty", 2, <<>>)),
       File(<<"s", "_", "0", "_", "0", ".", "p", "b", "f">>, Data("tile", 2, <<5, 8>>)),
       File(<<"s", "_", "2", "_", "1", ".", "p", "b", "f">>, Data("tile", 2, <<1, 6>>)),
       File(<<"s", "_", "3", "_", "1", ".", "p", "b", "f">>, Data("tile", 2, <<2>>)) >>

Injective(f) == \A a, b \in DOMAIN f : f[a] = f[b] => a = b

DirChoices ==
    {f \in UNION {[1..k -> 1..Len(FilePool)] : k \in 0..MaxFiles} : Injective(f)}

PassengerPool == <<0, 25, 50, 100>>

RowChoices == UNION {[1..k -> 1..Len(PassengerPool)] : k \in 1..MaxRows}

Row(r, passengers) ==
    [geometry   |-> [x |-> RatInt(r), y |-> 0],
     properties |-> [name |-> "A", passengers |-> passengers]]

-----------------------------------------------------------------------------
(* main and load_all_pbf_files, one directory entry per step. *)

Init ==
    /\ \E f \in DirChoices : dir = [k \in 1..Len(f) |-> FilePool[f[k]]]
    /\ pc = "main"
    /\ idx = 1
    /\ all_data = <<>>
    /\ file_count = 0
    /\ gdf = <<>>
    /\ m = None
    /\ saved = FALSE
    /\ log = <<>>
    /\ inp = None
    /\ out = None

(* What read_pbf prints last: the error, the empty-tile warning or the count. *)
Printed(r) ==
    IF r.kind = "raise" THEN <<"error", r.exc>>
    ELSE IF r.value = None THEN <<"warning", "empty">>
    ELSE <<"extracted", Len(r.value.items)>>

ReadPbfPrint(file_path, data) == Printed(ReadPbfBody(file_path, data))

(* A file without data empties the collection. *)
ExtendedOrReset(data, features) == IF Truthy(features) THEN data \o features.items ELSE <<>>

(* The records of a file put in front of the collection. *)
ExtendedInFront(data, features) == IF Truthy(features) THEN features.items \o data ELSE data

(* Lines 77-78: if features: all_data.extend(features). *)
Extended(data, features) == IF Truthy(features) THEN data \o features.items ELSE data

(* Lines 115-120 up to the loop of load_all_pbf_files. *)
MainStart ==
    /\ pc = "main"
    /\ pc' = "load"
    /\ idx' = 1
    /\ all_data' = <<>>
    /\ file_count' = 0
    /\ log' = Append(log, <<"loading">>)
    /\ UNCHANGED <<dir, gdf, m, saved, inp, out>>

(* One iteration of the loop of lines 72-78. *)
LoadFile ==
    /\ pc = "load"
    /\ idx <= Len(dir)
    /\ LET file == dir[idx].name
       IN  IF endswith(file, <<".", "p", "b", "f">>)
           THEN /\ file_count' = file_count + 1
                /\ log' = Append(log, ReadPbfPrint(join(PbfDir, file), dir[idx].data))
                /\ all_data' = Extended(all_data,
                                        read_pbf(join(PbfDir, file), dir[idx].data))
           ELSE UNCHANGED <<file_count, log, all_data>>
    /\ idx' = idx + 1
    /\ UNCHANGED <<pc, dir, gdf, m, saved, inp, out>>

(* Lines 80-88: the count is printed and the frame is built. *)
LoadFinish ==
    /\ pc = "load"
    /\ idx > Len(dir)
    /\ gdf' = all_data
    /\ log' = IF all_data # <<>>
              THEN Append(log, <<"files", file_count>>)
              ELSE log \o << <<"files", file_count>>, <<"warning", "no data">> >>
    /\ pc' = "loaded"
    /\ UNCHANGED <<dir, idx, all_data, file_count, m, saved, inp, out>>

(* The empty frame is drawn and saved all the same. *)
MainEmptySaves ==
    /\ pc = "loaded"
    /\ Len(gdf) = 0
    /\ m' = [kind |-> "map", markers |-> <<>>]
    /\ saved' = TRUE
    /\ log' = log \o << <<"stations", 0>>, <<"saved">> >>
    /\ pc' = "done"
    /\ UNCHANGED <<dir, idx, all_data, file_count, gdf, inp, out>>

(* Lines 122-123: all_data.empty. *)
MainEmpty ==
    /\ pc = "loaded"
    /\ Len(gdf) = 0
    /\ log' = Append(log, <<"warning", "no data">>)
    /\ pc' = "done"
    /\ UNCHANGED <<dir, idx, all_data, file_count, gdf, m, saved, inp, out>>

(* Lines 124-130: the map is created and saved. *)
MainMap ==
    /\ pc = "loaded"
    /\ Len(gdf) # 0
    /\ m' = [kind |-> "map", markers |-> create_map(gdf)]
    /\ saved' = TRUE
    /\ log' = log \o << <<"stations", Len(gdf)>>, <<"saved">> >>
    /\ pc' = "done"
    /\ UNCHANGED <<dir, idx, all_data, file_count, gdf, inp, out>>

Next == MainStart \/ LoadFile \/ LoadFinish \/ MainEmpty \/ MainMap

Spec == Init /\ [][Next]_vars

-----------------------------------------------------------------------------
(* read_pbf applied to one file. *)

Idle ==
    /\ dir = <<>>
    /\ idx = 1
    /\ all_data = <<>>
    /\ file_count = 0
    /\ gdf = <<>>
    /\ m = None
    /\ saved = FALSE
    /\ log = <<>>

IdleVars == <<dir, idx, all_data, file_count, gdf, m, saved, log>>

InitRead ==
    /\ Idle
    /\ pc = "call"
    /\ out = None
    /\ \E n \in 1..Len(NamePool), kind \in DataKinds,
          e \in 1..Len(ExtentPool), fs \in FeatureChoices :
          /\ kind # "tile" => e = 1 /\ fs = <<>>
          /\ inp = [file_path |-> join(PbfDir, NamePool[n]),
                    data      |-> Data(kind, ExtentPool[e], fs)]

ReadPbf ==
    /\ pc = "call"
    /\ out' = read_pbf(inp.file_path, inp.data)
    /\ pc' = "returned"
    /\ UNCHANGED <<inp, IdleVars>>

NextRead == ReadPbf

SpecRead == InitRead /\ [][NextRead]_vars

-----------------------------------------------------------------------------
(* tile_to_latlon applied as line 54 applies it. *)

InitTransform ==
    /\ Idle
    /\ pc = "call"
    /\ out = None
    /\ \E zoom \in 0..MaxZoom, extent \in {1, 2, 4096} :
          \E tileX, tileY \in 0..(Pow2(zoom) - 1),
             localX, localY \in {0, extent \div 2, extent} :
             inp = [zoom |-> zoom, tileX |-> tileX, tileY |-> tileY,
                    extent |-> extent, localX |-> localX, localY |-> localY]

Transform ==
    /\ pc = "call"
    /\ out' = tile_to_latlon(RatAdd(RatInt(inp.tileX), Rat(inp.localX, inp.extent)),
                             RatAdd(RatInt(inp.tileY), Rat(inp.localY, inp.extent)),
                             inp.zoom)
    /\ pc' = "returned"
    /\ UNCHANGED <<inp, IdleVars>>

NextTransform == Transform

SpecTransform == InitTransform /\ [][NextTransform]_vars

-----------------------------------------------------------------------------
(* create_map applied to a non-empty frame. *)

InitMap ==
    /\ Idle
    /\ pc = "call"
    /\ out = None
    /\ \E f \in RowChoices : inp = [r \in 1..Len(f) |-> Row(r, PassengerPool[f[r]])]

CreateMap ==
    /\ pc = "call"
    /\ out' = create_map(inp)
    /\ pc' = "returned"
    /\ UNCHANGED <<inp, IdleVars>>

NextMap == CreateMap

SpecMap == InitMap /\ [][NextMap]_vars

-----------------------------------------------------------------------------
(* What the inputs are, stated without the operators above. *)

Supported == {"Point", "LineString", "Polygon"}

IsNamed(feature) ==
    /\ "properties" \in DOMAIN feature
    /\ "S12_001_ja" \in DOMAIN feature.properties

HasFirstPoint(geom) ==
    CASE geom.type = "Point"      -> Len(geom.coordinates) >= 2
      [] geom.type = "LineString" -> Len(geom.coordinates) >= 1
      [] geom.type = "Polygon"    -> Len(geom.coordinates) >= 1 /\ Len(geom.coordinates[1]) >= 1
      [] OTHER                    -> FALSE

FirstPoint(geom) ==
    CASE geom.type = "Point"      -> geom.coordinates
      [] geom.type = "LineString" -> geom.coordinates[1]
      [] geom.type = "Polygon"    -> geom.coordinates[1][1]

(* A name-tagged feature of a supported geometry whose processing raises nothing. *)
Extractable(feature, extent) ==
    /\ IsNamed(feature)
    /\ "geometry" \in DOMAIN feature
    /\ feature.geometry.type \in Supported
    /\ HasFirstPoint(feature.geometry)
    /\ extent # 0

(* A name-tagged feature whose processing raises an error. *)
FeatureFails(feature, extent) ==
    /\ IsNamed(feature)
    /\ \/ "geometry" \notin DOMAIN feature
       \/ /\ feature.geometry.type \in Supported
          /\ ~HasFirstPoint(feature.geometry) \/ extent = 0

AllDigits(s) == s # <<>> /\ \A i \in 1..Len(s) : s[i] \in {Digits[d] : d \in 1..10}

(* <prefix>_<x>_<y>.<ext> with integer x and y. *)
WellFormedName(name) ==
    \E i, j, k \in 1..Len(name) :
        /\ 1 < i /\ i < j /\ j < k /\ k < Len(name)
        /\ name[i] = "_" /\ name[j] = "_" /\ name[k] = "."
        /\ AllDigits(SubSeq(name, i + 1, j - 1))
        /\ AllDigits(SubSeq(name, j + 1, k - 1))
        /\ \A q \in (j + 1)..Len(name) : name[q] # "_"

Matching(name) ==
    /\ Len(name) >= 4
    /\ name[Len(name) - 3] = "." /\ name[Len(name) - 2] = "p"
    /\ name[Len(name) - 1] = "b" /\ name[Len(name)] = "f"

(* The bytes decode to a non-empty tile and the name gives the tile. *)
FileLevelOK(name, data) ==
    /\ data.kind = "tile"
    /\ data.layers # <<>>
    /\ WellFormedName(name)

FirstLayer(data) == data.layers[1]

NoFeatureFails(data) ==
    \A k \in 1..Len(FirstLayer(data).features) :
        ~FeatureFails(FirstLayer(data).features[k], FirstLayer(data).extent)

FileValid(name, data) == FileLevelOK(name, data) /\ NoFeatureFails(data)

ExtractableCount(data) ==
    Cardinality({k \in 1..Len(FirstLayer(data).features) :
                    Extractable(FirstLayer(data).features[k], FirstLayer(data).extent)})

RECURSIVE ExtractableNames(_, _)
ExtractableNames(features, extent) ==
    IF features = <<>> THEN <<>>
    ELSE (IF Extractable(Head(features), extent)
          THEN <<Head(features).properties.S12_001_ja>> ELSE <<>>)
         \o ExtractableNames(Tail(features), extent)

ExpectedStation(feature, extent, tile) ==
    Station(tile_to_latlon(
                RatAdd(RatInt(tile.x), Rat(FirstPoint(feature.geometry)[1], extent)),
                RatAdd(RatInt(tile.y), Rat(FirstPoint(feature.geometry)[2], extent)),
                Zoom),
            feature.properties.S12_001_ja,
            IF "S12_009" \in DOMAIN feature.properties THEN feature.properties.S12_009 ELSE 0)

RECURSIVE ExpectedStations(_, _, _)
ExpectedStations(features, extent, tile) ==
    IF features = <<>> THEN <<>>
    ELSE (IF Extractable(Head(features), extent)
          THEN <<ExpectedStation(Head(features), extent, tile)>> ELSE <<>>)
         \o ExpectedStations(Tail(features), extent, tile)

RECURSIVE TotalRecords(_)
TotalRecords(d) ==
    IF d = <<>> THEN 0
    ELSE (IF Matching(Head(d).name) /\ FileValid(Head(d).name, Head(d).data)
          THEN ExtractableCount(Head(d).data) ELSE 0)
         + TotalRecords(Tail(d))

RECURSIVE ExpectedNames(_)
ExpectedNames(d) ==
    IF d = <<>> THEN <<>>
    ELSE (IF Matching(Head(d).name) /\ FileValid(Head(d).name, Head(d).data)
          THEN ExtractableNames(FirstLayer(Head(d).data).features,
                                FirstLayer(Head(d).data).extent)
          ELSE <<>>)
         \o ExpectedNames(Tail(d))

RECURSIVE PerFileConcat(_)
PerFileConcat(d) ==
    IF d = <<>> THEN <<>>
    ELSE (IF Matching(Head(d).name)
             /\ read_pbf(join(PbfDir, Head(d).name), Head(d).data).kind = "list"
          THEN read_pbf(join(PbfDir, Head(d).name), Head(d).data).items
          ELSE <<>>)
         \o PerFileConcat(Tail(d))

MatchingCount(d) == Cardinality({k \in 1..Len(d) : Matching(d[k].name)})

NoneUsable(d) ==
    \A k \in 1..Len(d) : Matching(d[k].name) => ~FileValid(d[k].name, d[k].data)

Loaded == pc \in {"loaded", "done"}

Logged(tag) == \E i \in 1..Len(log) : log[i][1] = tag

InName == basename(inp.file_path)

-----------------------------------------------------------------------------
(* Claims about read_pbf, checked under SpecRead. *)

(* C1: read_pbf never raises; it returns None exactly when the bytes do    *)
(* not decode, the decoded tile is empty or the file name does not match   *)
(* <prefix>_<x>_<y>.<ext>, and a sequence of records otherwise.            *)
C1_NoneExactlyOnFileErrors ==
    pc = "returned" =>
        /\ out # None => out.kind = "list"
        /\ out = None <=> ~FileLevelOK(InName, inp.data)

(* C4: no record comes from a feature without the key S12_001_ja, a kept   *)
(* feature gives at most one record, and the records are never more than   *)
(* the features of the layer.                                              *)
C4_FilteringInvariant ==
    pc = "returned" /\ out # None =>
        LET features == FirstLayer(inp.data).features
            named    == {k \in 1..Len(features) : IsNamed(features[k])}
        IN  /\ Len(out.items) <= Cardinality(named)
            /\ Len(out.items) <= Len(features)
            /\ \A r \in 1..Len(out.items) :
                  LET n == out.items[r].properties.name
                  IN  Cardinality({q \in 1..Len(out.items) : out.items[q].properties.name = n})
                          <= Cardinality({k \in named : features[k].properties.S12_001_ja = n})

C4_Witness ==
    /\ pc = "returned"
    /\ out # None
    /\ out.items # <<>>
    /\ \E k \in 1..Len(FirstLayer(inp.data).features) :
          ~IsNamed(FirstLayer(inp.data).features[k])

(* C5: a Point gives its coordinate pair, a LineString its first pair, a   *)
(* Polygon the first pair of its first ring; a feature of another geometry *)
(* type gives no record and the other features of the file are returned.   *)
C5_GeometryPolicy ==
    pc = "returned" /\ FileValid(InName, inp.data) =>
        out = List(ExpectedStations(FirstLayer(inp.data).features,
                                    FirstLayer(inp.data).extent,
                                    TileOfName(InName).value))

C5_Witness ==
    /\ pc = "returned"
    /\ FileValid(InName, inp.data)
    /\ out # None
    /\ Len(out.items) = 1
    /\ Len(FirstLayer(inp.data).features) = 2
    /\ FirstLayer(inp.data).features[1].geometry.type = "MultiPolygon"
    /\ FirstLayer(inp.data).features[2].geometry.type = "Polygon"

(* C8: an error raised while one name-tagged feature is processed skips    *)
(* that feature only: the records of the other features of the file are    *)
(* returned.                                                               *)
C8_FeatureErrorsSkipOneFeature ==
    pc = "returned" /\ FileLevelOK(InName, inp.data) =>
        /\ out # None
        /\ out.items = ExpectedStations(FirstLayer(inp.data).features,
                                        FirstLayer(inp.data).extent,
                                        TileOfName(InName).value)

-----------------------------------------------------------------------------
(* Claims about tile_to_latlon, checked under SpecTransform. *)

(* C7: lon = (tileX + localX/extent) / 2^zoom * 360 - 180; at zoom 0, tile *)
(* (0,0), extent 1 the local point (0,0) gives lon -180 and lat 85.0511,   *)
(* the local point (1,1) gives lon 180 and lat -85.0511 (to 0.0001).       *)
C7_TransformCorrectness ==
    pc = "returned" =>
        /\ out.lon = Rat((inp.tileX * inp.extent + inp.localX) * 360
                             - 180 * inp.extent * Pow2(inp.zoom),
                         inp.extent * Pow2(inp.zoom))
        /\ inp.zoom = 0 /\ inp.extent = 1 /\ inp.localX = 0 /\ inp.localY = 0 =>
              /\ out.lon = RatInt(-180)
              /\ Abs(out.lat - 85051100) <= 100
        /\ inp.zoom = 0 /\ inp.extent = 1 /\ inp.localX = 1 /\ inp.localY = 1 =>
              /\ out.lon = RatInt(180)
              /\ Abs(out.lat + 85051100) <= 100

C7_Witness ==
    /\ pc = "returned"
    /\ inp.zoom = 0 /\ inp.extent = 1 /\ inp.localX = 1 /\ inp.localY = 1
    /\ out.lon = RatInt(180)
    /\ out.lat < 0

-----------------------------------------------------------------------------
(* Claims about create_map, checked under SpecMap. *)

Counts == [r \in 1..Len(inp) |-> inp[r].properties.passengers]

Lowest == CHOOSE v \in {Counts[r] : r \in 1..Len(inp)} : \A r \in 1..Len(inp) : v <= Counts[r]

Highest == CHOOSE v \in {Counts[r] : r \in 1..Len(inp)} : \A r \in 1..Len(inp) : v >= Counts[r]

C10_RadiusDefinedInRange ==
    pc = "returned" =>
        /\ Len(out) = Len(inp)
        /\ \A r \in 1..Len(out) :
              /\ "num" \in DOMAIN out[r].radius
              /\ RatLeq(RatInt(5), out[r].radius)
              /\ RatLeq(out[r].radius, RatInt(20))

-----------------------------------------------------------------------------
(* Claims about load_all_pbf_files and main, checked under Spec. *)

(* C2: the collection holds exactly the records of the matching files that *)
(* decoded, the number of matching files is reported, and a matching file  *)
(* that fails adds nothing and removes nothing.                            *)
C2_AggregationCompleteness ==
    Loaded =>
        /\ Len(gdf) = TotalRecords(dir)
        /\ \E i \in 1..Len(log) : log[i][1] = "files" /\ log[i][2] = MatchingCount(dir)

C2_Witness ==
    /\ pc = "done"
    /\ Len(dir) = 2
    /\ \E a, b \in 1..2 :
          /\ Matching(dir[a].name) /\ FileValid(dir[a].name, dir[a].data)
          /\ Matching(dir[b].name) /\ dir[b].data.kind = "malformed"
          /\ a < b
          /\ ExtractableCount(dir[a].data) > 0
          /\ Len(gdf) = ExtractableCount(dir[a].data)

(* C3: with no entry ending in .pbf, or with every such file giving None,  *)
(* the collection is empty, no map is created or saved, and main ends on   *)
(* the warning.                                                            *)
C3_EmptyRunSkipsMap ==
    NoneUsable(dir) =>
        /\ m = None
        /\ ~saved
        /\ Loaded => gdf = <<>>
        /\ pc = "done" => log[Len(log)] = <<"warning", "no data">> /\ ~Logged("saved")

C3_Witness ==
    /\ pc = "done"
    /\ NoneUsable(dir)
    /\ MatchingCount(dir) > 0
    /\ gdf = <<>>

(* C9: the records of a file keep the order of its features, the           *)
(* collection is the per-file sequences concatenated in iteration order,   *)
(* and a station occurring several times gives one record per occurrence.  *)
C9_OrderNoDeduplication ==
    Loaded =>
        /\ gdf = PerFileConcat(dir)
        /\ [r \in 1..Len(gdf) |-> gdf[r].properties.name] = ExpectedNames(dir)

C9_Witness ==
    /\ pc = "done"
    /\ Len(gdf) >= 4
    /\ \E a, b, c \in 1..Len(gdf) :
          /\ a < b /\ b < c /\ c < Len(gdf)
          /\ gdf[a].properties.name = "A"
          /\ gdf[b].properties.name = "C"
          /\ gdf[c].properties.name = "A"
          /\ gdf[c] = gdf[c + 1]

=============================================================================
